---- MODULE Spec2Model ----
(***************************************************************************)
(* Model of the wallet (src/src/web3/WalletClient.ts) and of the operation *)
(* status tracker (src/src/web3/SmartContractsClient.ts) of massa-web3.    *)
(***************************************************************************)
EXTENDS Naturals, Integers, Sequences, FiniteSets, TLC

VARIABLES
    wallet,          \* WalletClient.wallet: Array<IAccount>
    baseAccount,     \* WalletClient.baseAccount: IAccount (NoAccount = undefined)
    lastCall,        \* the last wallet call: its name, its error, its list's size
    call,            \* one add call followed from its arguments to its outcome
    signed,          \* the last signMessage / walletSignMessage call and its outcome
    info,            \* the last walletInfo call: the remote response and its outcome
    operationData,   \* getOperationStatus: what publicApiClient.getOperations gave
    opStatus,        \* getOperationStatus: the status returned
    requiredStatus,  \* awaitRequiredOperationStatus: its parameter
    errCounter,      \* awaitRequiredOperationStatus: let errCounter
    pendingCounter,  \* awaitRequiredOperationStatus: let pendingCounter
    awaitPc,         \* "idle", "running", "returned" or "thrown"
    awaitResult,     \* the status returned, or the error thrown
    lookups,         \* calls of getOperationStatus made by the running call
    sleeps,          \* calls of wait(TX_POLL_INTERVAL_MS) made by the running call
    timeoutMs,       \* the duration the timeout error's message reports (0: none thrown)
    successSinceFailure  \* observed: a lookup succeeded after an earlier one failed

walletVars == <<wallet, baseAccount, lastCall>>

callVars == <<call, signed, info>>

statusVars == <<operationData, opStatus>>

awaitVars ==
    <<requiredStatus, errCounter, pendingCounter, awaitPc, awaitResult, lookups, sleeps,
      timeoutMs, successSinceFailure>>

vars == <<walletVars, callVars, statusVars, awaitVars>>

(***************************************************************************)
(* Bounds of the model.                                                    *)
(***************************************************************************)
MaxBatch == 2      \* longest list handed to an add call of Spec
MaxRemove == 2     \* longest list handed to removeAddressesFromWallet
MaxRecords == 2    \* longest list of records a lookup returns
MaxBlocks == 2     \* longest in_blocks list of a record
MaxInfos == 2      \* longest response to the request of walletInfo

(***************************************************************************)
(* Program constants.                                                      *)
(***************************************************************************)
VERSION_NUMBER == 0
ADDRESS_PRAEFIX == "A"
MAX_WALLET_ACCOUNTS == 256
TX_POLL_INTERVAL_MS == 10000
TX_STATUS_CHECK_RETRY_COUNT == 100
MaxErrCounter == 100        \* if (++errCounter > 100)
MaxPendingCounter == 1000   \* if (++pendingCounter > 1000)

(***************************************************************************)
(* JavaScript values.  Null stands for null/undefined in a string field,   *)
(* NoAccount for an undefined IAccount.                                    *)
(***************************************************************************)
Null == "<null>"

NoAccount ==
    [address |-> "<undefined>", publicKey |-> "<undefined>",
     privateKey |-> "<undefined>", randomEntropy |-> "<undefined>"]

\* `!x` for a string field: null, undefined and "" are falsy
Falsy(s) == s = Null \/ s = ""

(***************************************************************************)
(* Key material.  Byte strings are numbers, base58 texts are strings.      *)
(*   entropy bytes 21, 22   private key bytes 1, 2   public key bytes 11,12 *)
(*   address payload (version ++ blake3(public key)) 31, 32                *)
(***************************************************************************)
base58Decode(text) ==
    CASE text = "e1" -> 21 [] text = "e2" -> 22
      [] text = "k1" -> 1  [] text = "k2" -> 2
      [] text = "P1" -> 11 [] text = "P2" -> 12
      [] text = "1b" -> 31 [] text = "2c" -> 32

base58Encode(bytes) ==
    CASE bytes = 21 -> "e1" [] bytes = 22 -> "e2"
      [] bytes = 1  -> "k1" [] bytes = 2  -> "k2"
      [] bytes = 11 -> "P1" [] bytes = 12 -> "P2"
      [] bytes = 31 -> "1b" [] bytes = 32 -> "2c"

\* secp.utils.hashToPrivateKey: entropy bytes -> private key bytes
hashToPrivateKey(entropyBytes) == entropyBytes - 20

\* secp.schnorr.getPublicKey: private key bytes -> public key bytes
getPublicKey(privateKeyBytes) == privateKeyBytes + 10

\* Buffer.concat([varintEncode(VERSION_NUMBER), hashBlake3(publicKey)])
versionedHash(publicKeyBytes) == VERSION_NUMBER + publicKeyBytes + 20

\* ADDRESS_PRAEFIX + base58Encode(Buffer.concat([version, hashBlake3(publicKey)]))
deriveAddress(publicKeyBytes) ==
    ADDRESS_PRAEFIX \o base58Encode(versionedHash(publicKeyBytes))

\* String.prototype.toLowerCase on the strings that occur as addresses
toLowerCase(s) ==
    CASE s \in {"A1b", "a1b", "A1B"} -> "a1b"
      [] s \in {"A2c", "a2c", "A2C"} -> "a2c"
      [] OTHER -> s

PrivateKeys == {"k1", "k2"}
Entropies == {"e1", "e2"}

(***************************************************************************)
(* Inputs.  The accounts a caller hands to addAccountsToWallet and to      *)
(* setBaseAccount, and the address strings handed to                       *)
(* removeAddressesFromWallet.                                              *)
(***************************************************************************)
Account(a, pub, priv, ent) ==
    [address |-> a, publicKey |-> pub, privateKey |-> priv, randomEntropy |-> ent]

\* entries of the lists handed to addAccountsToWallet
AccountEntries ==
    { Account("A1b", "P1", "k1", Null),    \* full account, by private key
      Account(Null, Null, Null, "e1"),     \* by entropy alone
      Account(Null, Null, "k2", Null),     \* by private key alone
      Account(Null, Null, "k2", "e1"),     \* entropy and another private key
      Account(Null, "P2", "k1", Null) }    \* public key of another private key

\* entries of the list of an add call followed on its own
CallEntries ==
    AccountEntries \cup
    { Account("A2c", Null, "k1", Null),    \* address of another private key
      Account(Null, Null, Null, Null) }    \* neither entropy nor private key

\* accounts handed to setBaseAccount
AccountInputs ==
    CallEntries \cup
    { Account("A2c", "P2", "k2", Null),    \* full account, by private key
      Account("a1b", "P1", "k1", Null),    \* address in another letter case
      Account("A1b", "P2", "k2", Null) }   \* a member's address, other keys

AddressInputs == {"A1b", "a1b", "A2c"}

\* all sequences over S of length 0..n
SeqsUpTo(S, n) == UNION { [1..k -> S] : k \in 0..n }

(***************************************************************************)
(* getAccountFromPrivateKey / getAccountFromEntropy (static)               *)
(***************************************************************************)
getAccountFromPrivateKey(privateKeyBase58) ==
    LET privateKeyBase58Decoded == base58Decode(privateKeyBase58)
        publicKey == getPublicKey(privateKeyBase58Decoded)
    IN  Account(deriveAddress(publicKey), base58Encode(publicKey),
                privateKeyBase58, Null)

\* getAccountFromEntropy taking the private key bytes for the public key
getAccountFromEntropyNoPublicKey(entropyBase58) ==
    LET privateKey == hashToPrivateKey(base58Decode(entropyBase58))
        publicKey == privateKey
    IN  Account(deriveAddress(publicKey), base58Encode(publicKey),
                base58Encode(privateKey), entropyBase58)

getAccountFromEntropy(entropyBase58) ==
    LET privateKey == hashToPrivateKey(base58Decode(entropyBase58))
        publicKey == getPublicKey(privateKey)
    IN  Account(deriveAddress(publicKey), base58Encode(publicKey),
                base58Encode(privateKey), entropyBase58)

(***************************************************************************)
(* Wallet methods as functions of the wallet array.  A method that throws  *)
(* yields its error and the array as the throw leaves it.                  *)
(***************************************************************************)
\* Array.prototype.findIndex, 1-based, from the indices whose element matches;
\* 0 when no element matches
FindIndex(matches) ==
    IF matches = {} THEN 0 ELSE CHOOSE i \in matches : \A j \in matches : i <= j

\* Array.prototype.splice(index, 1)
Splice(w, index) ==
    [i \in 1..(Len(w) - 1) |-> IF i < index THEN w[i] ELSE w[i + 1]]

getWalletAccountByAddress(w, address) ==
    LET index == FindIndex({i \in 1..Len(w) :
                               toLowerCase(w[i].address) = toLowerCase(address)})
    IN  IF index = 0 THEN NoAccount ELSE w[index]

\* the account addPrivateKeysToWallet builds for one key (lines 114-127)
accountOfPrivateKey(privateKey) ==
    LET privateKeyBase58Decoded == base58Decode(privateKey)
        publicKey == getPublicKey(privateKeyBase58Decoded)
    IN  Account(deriveAddress(publicKey), base58Encode(publicKey), privateKey, Null)

\* the for loop without the lookup: every key's account is created
privateKeysLoopNoSkip(w, privateKeys) ==
    [i \in 1..Len(privateKeys) |-> accountOfPrivateKey(privateKeys[i])]

\* the for loop of addPrivateKeysToWallet (lines 113-129): accountsToCreate.
\* Every key is looked up in the wallet as it was when the call began, which
\* the loop never changes.
privateKeysLoop(w, privateKeys) ==
    LET accounts == [i \in 1..Len(privateKeys) |-> accountOfPrivateKey(privateKeys[i])]
        Absent(account) == getWalletAccountByAddress(w, account.address) = NoAccount
    IN  SelectSeq(accounts, Absent)

\* addPrivateKeysToWallet with the cap compared by >= (a list of exactly
\* MAX_WALLET_ACCOUNTS keys is rejected)
addPrivateKeysToWalletCapInclusive(w, privateKeys) ==
    IF Len(privateKeys) >= MAX_WALLET_ACCOUNTS
    THEN [error |-> "TooManyAccounts", wallet |-> w, ret |-> <<>>]
    ELSE LET accountsToCreate == privateKeysLoop(w, privateKeys)
         IN  [error |-> "none", wallet |-> w \o accountsToCreate,
              ret |-> accountsToCreate]

addPrivateKeysToWallet(w, privateKeys) ==
    IF Len(privateKeys) > MAX_WALLET_ACCOUNTS
    THEN [error |-> "TooManyAccounts", wallet |-> w, ret |-> <<>>]
    ELSE LET accountsToCreate == privateKeysLoop(w, privateKeys)
         IN  [error |-> "none", wallet |-> w \o accountsToCreate,
              ret |-> accountsToCreate]

\* the private key addAccountsToWallet resolves for one entry (lines 147-157)
resolvePrivateKey(account) ==
    IF ~Falsy(account.randomEntropy)
    THEN base58Encode(hashToPrivateKey(base58Decode(account.randomEntropy)))
    ELSE account.privateKey

\* the loop body of addAccountsToWallet without the check of the supplied address
accountsLoopBodyNoAddressCheck(account) ==
    IF Falsy(account.randomEntropy) /\ Falsy(account.privateKey)
    THEN [error |-> "MissingKey", account |-> NoAccount]
    ELSE LET privateKeyBase58Encoded == resolvePrivateKey(account)
             publicKey == getPublicKey(base58Decode(privateKeyBase58Encoded))
             publicKeyBase58Encoded == base58Encode(publicKey)
             addressBase58Encoded == deriveAddress(publicKey)
         IN  IF ~Falsy(account.publicKey) /\ account.publicKey # publicKeyBase58Encoded
             THEN [error |-> "PublicKeyMismatch", account |-> NoAccount]
             ELSE [error |-> "none",
                   account |-> Account(addressBase58Encoded, publicKeyBase58Encoded,
                                       privateKeyBase58Encoded, account.randomEntropy)]

\* one iteration of the loop of addAccountsToWallet (lines 143-181): the error
\* it throws, and the account it would push
accountsLoopBody(account) ==
    IF Falsy(account.randomEntropy) /\ Falsy(account.privateKey)
    THEN [error |-> "MissingKey", account |-> NoAccount]
    ELSE LET privateKeyBase58Encoded == resolvePrivateKey(account)
             publicKey == getPublicKey(base58Decode(privateKeyBase58Encoded))
             publicKeyBase58Encoded == base58Encode(publicKey)
             addressBase58Encoded == deriveAddress(publicKey)
         IN  IF ~Falsy(account.publicKey) /\ account.publicKey # publicKeyBase58Encoded
             THEN [error |-> "PublicKeyMismatch", account |-> NoAccount]
             ELSE IF ~Falsy(account.address) /\ account.address # addressBase58Encoded
             THEN [error |-> "AddressMismatch", account |-> NoAccount]
             ELSE [error |-> "none",
                   account |-> Account(addressBase58Encoded, publicKeyBase58Encoded,
                                       privateKeyBase58Encoded, account.randomEntropy)]

\* the for loop of addAccountsToWallet (lines 142-182): the error of the first
\* entry that throws, else accountsAdded.  Every entry is looked up in the
\* wallet as it was when the call began, which the loop never changes.
accountsLoop(w, accounts) ==
    LET throwing == {i \in 1..Len(accounts) : accountsLoopBody(accounts[i]).error # "none"}
        first == CHOOSE i \in throwing : \A j \in throwing : i <= j
        Absent(account) == getWalletAccountByAddress(w, account.address) = NoAccount
    IN  IF throwing # {}
        THEN [error |-> accountsLoopBody(accounts[first]).error, ret |-> <<>>]
        ELSE [error |-> "none",
              ret |-> SelectSeq([i \in 1..Len(accounts) |->
                                    accountsLoopBody(accounts[i]).account], Absent)]

\* addAccountsToWallet pushing each account as its entry passes the checks
addAccountsToWalletPushEach(w, accounts) ==
    IF Len(accounts) > MAX_WALLET_ACCOUNTS
    THEN [error |-> "TooManyAccounts", wallet |-> w, ret |-> <<>>]
    ELSE LET loop == accountsLoop(w, accounts)
             passed == CHOOSE n \in 0..Len(accounts) :
                          /\ accountsLoop(w, SubSeq(accounts, 1, n)).error = "none"
                          /\ \/ n = Len(accounts)
                             \/ accountsLoop(w, SubSeq(accounts, 1, n + 1)).error # "none"
             pushed == accountsLoop(w, SubSeq(accounts, 1, passed)).ret
         IN  IF loop.error # "none"
             THEN [error |-> loop.error, wallet |-> w \o pushed, ret |-> <<>>]
             ELSE [error |-> "none", wallet |-> w \o loop.ret, ret |-> loop.ret]

addAccountsToWallet(w, accounts) ==
    IF Len(accounts) > MAX_WALLET_ACCOUNTS
    THEN [error |-> "TooManyAccounts", wallet |-> w, ret |-> <<>>]
    ELSE LET loop == accountsLoop(w, accounts)
         IN  IF loop.error # "none"
             THEN [error |-> loop.error, wallet |-> w, ret |-> <<>>]
             ELSE [error |-> "none", wallet |-> w \o loop.ret, ret |-> loop.ret]

RECURSIVE removeAddressesFromWallet(_, _)
removeAddressesFromWallet(w, addresses) ==
    IF addresses = <<>> THEN w
    ELSE LET address == Head(addresses)
             index == FindIndex({i \in 1..Len(w) : w[i].address = address})
         IN  removeAddressesFromWallet(
                 IF index > 0 THEN Splice(w, index) ELSE w, Tail(addresses))

\* setBaseAccount on wallet array w with base account b: the error thrown, and
\* the array and the base account afterwards
setBaseAccount(w, b, account) ==
    IF account.address = Null /\ w # <<>>
    THEN \* (null).toLowerCase() throws in the callback of find, which an
         \* empty array never calls
         [error |-> "TypeError", wallet |-> w, baseAccount |-> b]
    ELSE IF getWalletAccountByAddress(w, account.address) = NoAccount
    THEN LET added == addAccountsToWallet(w, <<account>>)
         IN  IF added.error # "none"
             THEN [error |-> added.error, wallet |-> w, baseAccount |-> b]
             ELSE [error |-> "none", wallet |-> added.wallet,
                   baseAccount |-> IF added.ret = <<>> THEN NoAccount
                                   ELSE added.ret[1]]
    ELSE [error |-> "none", wallet |-> w, baseAccount |-> account]

(***************************************************************************)
(* The wallet's state machine.                                             *)
(***************************************************************************)
\* the length of a list handed to a call, against MAX_WALLET_ACCOUNTS
SizeClass(n) ==
    IF n > MAX_WALLET_ACCOUNTS THEN "overCap"
    ELSE IF n = MAX_WALLET_ACCOUNTS THEN "atCap"
    ELSE "belowCap"

Call(op, error, n) == [op |-> op, error |-> error, size |-> SizeClass(n)]

\* new WalletClient(clientConfig, publicApiClient, baseAccount?)
WalletInit ==
    \/ /\ wallet = <<>>
       /\ baseAccount = NoAccount
       /\ lastCall = Call("constructor", "none", 0)
    \/ \E account \in AccountInputs :
         LET r == setBaseAccount(<<>>, NoAccount, account)
         IN  /\ r.error = "none"
             /\ wallet = r.wallet
             /\ baseAccount = r.baseAccount
             /\ lastCall = Call("constructor", "none", 0)

SetBaseAccount(account) ==
    LET r == setBaseAccount(wallet, baseAccount, account)
    IN  /\ wallet' = r.wallet
        /\ baseAccount' = r.baseAccount
        /\ lastCall' = Call("setBaseAccount", r.error, 1)
        /\ UNCHANGED <<callVars, statusVars, awaitVars>>

CleanWallet ==
    /\ wallet' = <<>>
    /\ lastCall' = Call("cleanWallet", "none", 0)
    /\ UNCHANGED <<baseAccount, callVars, statusVars, awaitVars>>

AddPrivateKeysToWallet(privateKeys) ==
    LET r == addPrivateKeysToWallet(wallet, privateKeys)
    IN  /\ wallet' = r.wallet
        /\ lastCall' = Call("addPrivateKeysToWallet", r.error, Len(privateKeys))
        /\ UNCHANGED <<baseAccount, callVars, statusVars, awaitVars>>

AddAccountsToWallet(accounts) ==
    LET r == addAccountsToWallet(wallet, accounts)
    IN  /\ wallet' = r.wallet
        /\ lastCall' = Call("addAccountsToWallet", r.error, Len(accounts))
        /\ UNCHANGED <<baseAccount, callVars, statusVars, awaitVars>>

RemoveAddressesFromWallet(addresses) ==
    /\ wallet' = removeAddressesFromWallet(wallet, addresses)
    /\ lastCall' = Call("removeAddressesFromWallet", "none", Len(addresses))
    /\ UNCHANGED <<baseAccount, callVars, statusVars, awaitVars>>

(***************************************************************************)
(* One add call, followed from its arguments to its outcome.               *)
(***************************************************************************)
NoCall ==
    [op |-> "none", status |-> "none", privateKeys |-> <<>>, accounts |-> <<>>,
     before |-> <<>>, error |-> "none", ret |-> <<>>]

\* the call op(privateKeys | accounts) made on the wallet array `before`
PendingCall(op, privateKeys, accounts, before) ==
    [op |-> op, status |-> "pending", privateKeys |-> privateKeys,
     accounts |-> accounts, before |-> before, error |-> "none", ret |-> <<>>]

CallAddPrivateKeysToWallet ==
    /\ call.status = "pending"
    /\ call.op = "addPrivateKeysToWallet"
    /\ LET r == addPrivateKeysToWallet(wallet, call.privateKeys)
       IN  /\ wallet' = r.wallet
           /\ lastCall' = Call("addPrivateKeysToWallet", r.error, Len(call.privateKeys))
           /\ call' = [call EXCEPT !.status = "done", !.before = wallet,
                                   !.error = r.error, !.ret = r.ret]
    /\ UNCHANGED <<baseAccount, signed, info, statusVars, awaitVars>>

CallAddAccountsToWallet ==
    /\ call.status = "pending"
    /\ call.op = "addAccountsToWallet"
    /\ LET r == addAccountsToWallet(wallet, call.accounts)
       IN  /\ wallet' = r.wallet
           /\ lastCall' = Call("addAccountsToWallet", r.error, Len(call.accounts))
           /\ call' = [call EXCEPT !.status = "done", !.before = wallet,
                                   !.error = r.error, !.ret = r.ret]
    /\ UNCHANGED <<baseAccount, signed, info, statusVars, awaitVars>>

\* setBaseAccount(account), the account kept in the call's one-entry list
CallSetBaseAccount ==
    /\ call.status = "pending"
    /\ call.op = "setBaseAccount"
    /\ LET r == setBaseAccount(wallet, baseAccount, call.accounts[1])
       IN  /\ wallet' = r.wallet
           /\ baseAccount' = r.baseAccount
           /\ lastCall' = Call("setBaseAccount", r.error, 1)
           /\ call' = [call EXCEPT !.status = "done", !.before = wallet,
                                   !.error = r.error,
                                   !.ret = IF r.error = "none" THEN <<r.baseAccount>>
                                           ELSE <<>>]
    /\ UNCHANGED <<signed, info, statusVars, awaitVars>>

(***************************************************************************)
(* Signing: walletSignMessage (static) and signMessage.                    *)
(***************************************************************************)
\* the payloads handed to the signing calls
Messages == {"m1", "m2"}

\* Buffer.from(data)
BufferFrom(data) == CASE data = "m1" -> 61 [] data = "m2" -> 62

\* hashBlake3 of the payload bytes
hashBlake3(bytes) == bytes + 20

SignatureLength == 64

\* schnorr.signSync(digest, privateKey): a signature is known by the digest
\* and the private key it was made with
signSync(messageHashDigest, privateKeyBytes) ==
    [digest |-> messageHashDigest, key |-> privateKeyBytes, length |-> SignatureLength]

\* schnorr.verifySync(sig, digest, publicKey)
verifySync(sig, messageHashDigest, publicKeyBytes) ==
    /\ sig.digest = messageHashDigest
    /\ getPublicKey(sig.key) = publicKeyBytes

\* secp.utils.bytesToHex(sig) and base58Encode(sig)
bytesToHex(sig) == [encoding |-> "hex", bytes |-> sig]

base58EncodeSignature(sig) == [encoding |-> "base58", bytes |-> sig]

NoSignature == [hex |-> "<none>", base58Encoded |-> "<none>"]

\* the accounts handed to walletSignMessage as signer
Signers ==
    { Account("A1b", "P1", "k1", Null),    \* consistent
      Account("A2c", "P2", "k2", "e2"),    \* consistent
      Account("A1b", "P2", "k1", Null),    \* public key of another private key
      Account("A1b", "P1", Null, Null),    \* no private key
      Account("A1b", "P1", "", Null),      \* empty private key
      Account("A1b", Null, "k1", Null),    \* no public key
      Account("A1b", Null, Null, Null) }   \* neither

\* walletSignMessage without the verification of the signature
walletSignMessageNoVerify(data, signer) ==
    IF Falsy(signer.privateKey)
    THEN [error |-> "NoPrivateKey", signature |-> NoSignature, signSyncCalls |-> 0]
    ELSE IF Falsy(signer.publicKey)
    THEN [error |-> "NoPublicKey", signature |-> NoSignature, signSyncCalls |-> 0]
    ELSE LET privateKeyBase58Decoded == base58Decode(signer.privateKey)
             messageHashDigest == hashBlake3(BufferFrom(data))
             sig == signSync(messageHashDigest, privateKeyBase58Decoded)
         IN  IF sig.length # 64
             THEN [error |-> "InvalidSignatureLength", signature |-> NoSignature,
                   signSyncCalls |-> 1]
             ELSE [error |-> "none",
                   signature |-> [hex |-> bytesToHex(sig),
                                  base58Encoded |-> base58EncodeSignature(sig)],
                   signSyncCalls |-> 1]

\* walletSignMessage(data, signer): the error thrown, the ISignature returned
\* and the number of signSync calls made
walletSignMessage(data, signer) ==
    IF Falsy(signer.privateKey)
    THEN [error |-> "NoPrivateKey", signature |-> NoSignature, signSyncCalls |-> 0]
    ELSE IF Falsy(signer.publicKey)
    THEN [error |-> "NoPublicKey", signature |-> NoSignature, signSyncCalls |-> 0]
    ELSE LET privateKeyBase58Decoded == base58Decode(signer.privateKey)
             messageHashDigest == hashBlake3(BufferFrom(data))
             sig == signSync(messageHashDigest, privateKeyBase58Decoded)
         IN  IF sig.length # 64
             THEN [error |-> "InvalidSignatureLength", signature |-> NoSignature,
                   signSyncCalls |-> 1]
             ELSE IF ~verifySync(sig, messageHashDigest, base58Decode(signer.publicKey))
             THEN [error |-> "NotVerified", signature |-> NoSignature,
                   signSyncCalls |-> 1]
             ELSE [error |-> "none",
                   signature |-> [hex |-> bytesToHex(sig),
                                  base58Encoded |-> base58EncodeSignature(sig)],
                   signSyncCalls |-> 1]

\* signMessage with the signer looked up by the exact address string
signMessageExactCase(w, data, accountSignerAddress) ==
    LET index == FindIndex({i \in 1..Len(w) : w[i].address = accountSignerAddress})
    IN  IF index = 0
        THEN [error |-> "NoSigner", signature |-> NoSignature, signSyncCalls |-> 0,
              signer |-> NoAccount]
        ELSE [error |-> walletSignMessage(data, w[index]).error,
              signature |-> walletSignMessage(data, w[index]).signature,
              signSyncCalls |-> walletSignMessage(data, w[index]).signSyncCalls,
              signer |-> w[index]]

\* signMessage(data, accountSignerAddress) on wallet array w
signMessage(w, data, accountSignerAddress) ==
    LET signerAccount == getWalletAccountByAddress(w, accountSignerAddress)
    IN  IF signerAccount = NoAccount
        THEN [error |-> "NoSigner", signature |-> NoSignature, signSyncCalls |-> 0,
              signer |-> NoAccount]
        ELSE [error |-> walletSignMessage(data, signerAccount).error,
              signature |-> walletSignMessage(data, signerAccount).signature,
              signSyncCalls |-> walletSignMessage(data, signerAccount).signSyncCalls,
              signer |-> signerAccount]

Signed(op, data, address, signer, r) ==
    [op |-> op, data |-> data, address |-> address, signer |-> signer,
     error |-> r.error, signature |-> r.signature, signSyncCalls |-> r.signSyncCalls]

NoSigned ==
    [op |-> "none", data |-> "<none>", address |-> "<none>", signer |-> NoAccount,
     error |-> "none", signature |-> NoSignature, signSyncCalls |-> 0]

WalletSignMessage(data, signer) ==
    /\ signed' = Signed("walletSignMessage", data, signer.address, signer,
                        walletSignMessage(data, signer))
    /\ UNCHANGED <<walletVars, call, info, statusVars, awaitVars>>

SignMessage(data, accountSignerAddress) ==
    LET r == signMessage(wallet, data, accountSignerAddress)
    IN  /\ signed' = Signed("signMessage", data, accountSignerAddress, r.signer, r)
        /\ lastCall' = Call("signMessage", r.error, 0)
        /\ UNCHANGED <<wallet, baseAccount, call, info, statusVars, awaitVars>>

(***************************************************************************)
(* walletInfo.                                                             *)
(***************************************************************************)
\* IAddressInfo, as far as walletInfo is concerned: the address it is about
AddressInfos == { [address |-> "A1b"], [address |-> "A2c"] }

\* what the remote get_addresses call resolves to
InfoResponses == SeqsUpTo(AddressInfos, MaxInfos)

\* walletInfo on wallet array w, the remote call resolving to addressesInfo:
\* the addresses requested, the error thrown and the list returned
walletInfo(w, addressesInfo) ==
    IF Len(w) = 0
    THEN [requested |-> <<>>, response |-> <<>>, error |-> "none", ret |-> <<>>]
    ELSE LET addresses == [i \in 1..Len(w) |-> w[i].address]
         IN  IF Len(addressesInfo) # Len(w)
             THEN [requested |-> addresses, response |-> addressesInfo,
                   error |-> "NotFullyRetrieved", ret |-> <<>>]
             ELSE [requested |-> addresses, response |-> addressesInfo,
                   error |-> "none",
                   ret |-> [index \in 1..Len(addressesInfo) |->
                               [publicKey |-> w[index].publicKey,
                                privateKey |-> w[index].privateKey,
                                randomEntropy |-> w[index].randomEntropy,
                                address |-> addressesInfo[index].address]]]

\* walletInfo up to its await (lines 199-204): it returns [] at once, or
\* requests the members' addresses
walletInfoBegin(w) ==
    IF Len(w) = 0
    THEN [returns |-> TRUE, requested |-> <<>>]
    ELSE [returns |-> FALSE, requested |-> [i \in 1..Len(w) |-> w[i].address]]

\* walletInfo from its await on (lines 204-217), the remote call resolving to
\* addressesInfo while the wallet array is w
walletInfoResume(w, requested, addressesInfo) ==
    IF Len(addressesInfo) # Len(w)
    THEN [requested |-> requested, response |-> addressesInfo,
          error |-> "NotFullyRetrieved", ret |-> <<>>]
    ELSE [requested |-> requested, response |-> addressesInfo,
          error |-> "none",
          ret |-> [index \in 1..Len(addressesInfo) |->
                      [publicKey |-> w[index].publicKey,
                       privateKey |-> w[index].privateKey,
                       randomEntropy |-> w[index].randomEntropy,
                       address |-> addressesInfo[index].address]]]

\* a walletInfo call: not made, awaiting the remote call, or settled
CallInfo(status, r) ==
    [status |-> status, requested |-> r.requested, response |-> r.response,
     error |-> r.error, ret |-> r.ret]

NoInfo ==
    [status |-> "none", requested |-> <<>>, response |-> <<>>, error |-> "none",
     ret |-> <<>>]

\* walletInfo when nothing else runs between its request and the response
WalletInfo(addressesInfo) ==
    /\ info.status # "pending"
    /\ info' = CallInfo("done", walletInfo(wallet, addressesInfo))
    /\ lastCall' = Call("walletInfo", info'.error, 0)
    /\ UNCHANGED <<wallet, baseAccount, call, signed, statusVars, awaitVars>>

\* the response that holds the info of each requested address, in the order
\* of the request
FaithfulResponse(requested) == [i \in 1..Len(requested) |-> [address |-> requested[i]]]

\* walletInfo is called and runs to its await, or returns []
WalletInfoBegin ==
    /\ info.status # "pending"
    /\ LET b == walletInfoBegin(wallet)
       IN  IF b.returns
           THEN /\ info' = CallInfo("done", walletInfo(wallet, <<>>))
                /\ lastCall' = Call("walletInfo", "none", 0)
           ELSE /\ info' = [NoInfo EXCEPT !.status = "pending", !.requested = b.requested]
                /\ UNCHANGED lastCall
    /\ UNCHANGED <<wallet, baseAccount, call, signed, statusVars, awaitVars>>

\* the remote call resolves to addressesInfo and walletInfo runs to its end,
\* on the wallet array as it is now
WalletInfoResolve(addressesInfo) ==
    /\ info.status = "pending"
    /\ info' = CallInfo("done", walletInfoResume(wallet, info.requested, addressesInfo))
    /\ lastCall' = Call("walletInfo", info'.error, 0)
    /\ UNCHANGED <<wallet, baseAccount, call, signed, statusVars, awaitVars>>

\* no signing call and no walletInfo call was made
Unqueried == signed = NoSigned /\ info = NoInfo

(***************************************************************************)
(* The operation status tracker.                                           *)
(***************************************************************************)
EOperationStatus ==
    {"INCLUDED_PENDING", "AWAITING_INCLUSION", "FINAL", "INCONSISTENT", "NOT_FOUND"}

\* IOperationData, as far as getOperationStatus reads it
OperationRecords ==
    [is_final : BOOLEAN, in_blocks : SeqsUpTo({"b1"}, MaxBlocks), in_pool : BOOLEAN]

\* what publicApiClient.getOperations([opId]) resolves to: an array, or null/undefined
Array(records) == [isArray |-> TRUE, records |-> records]

NullArray == [isArray |-> FALSE, records |-> <<>>]

Responses == {NullArray} \cup { Array(records) : records \in SeqsUpTo(OperationRecords, MaxRecords) }

\* getOperationStatus with in_pool tested before in_blocks
getOperationStatusPoolFirst(operationDataArray) ==
    IF ~operationDataArray.isArray \/ Len(operationDataArray.records) = 0 THEN "NOT_FOUND"
    ELSE LET opData == operationDataArray.records[1]
         IN  IF opData.is_final THEN "FINAL"
             ELSE IF opData.in_pool THEN "AWAITING_INCLUSION"
             ELSE IF Len(opData.in_blocks) > 0 THEN "INCLUDED_PENDING"
             ELSE "INCONSISTENT"

getOperationStatus(operationDataArray) ==
    IF ~operationDataArray.isArray \/ Len(operationDataArray.records) = 0 THEN "NOT_FOUND"
    ELSE LET opData == operationDataArray.records[1]
         IN  IF opData.is_final THEN "FINAL"
             ELSE IF Len(opData.in_blocks) > 0 THEN "INCLUDED_PENDING"
             ELSE IF opData.in_pool THEN "AWAITING_INCLUSION"
             ELSE "INCONSISTENT"

\* getOperationStatus: publicApiClient.getOperations has resolved, nothing returned yet
StatusPending(response) ==
    /\ operationData = response
    /\ opStatus = "pending"

StatusIdle == StatusPending(NullArray)

\* getOperationStatus from the resolved lookup to its return
GetOperationStatus ==
    /\ opStatus = "pending"
    /\ opStatus' = getOperationStatus(operationData)
    /\ UNCHANGED <<operationData, walletVars, callVars, awaitVars>>

\* what one lookup of the polling loop does: it throws, or resolves to a list
LookupFails == [throws |-> TRUE, response |-> NullArray]

Resolves(response) == [throws |-> FALSE, response |-> response]

OperationRecord(final, blocks, pool) ==
    [is_final |-> final, in_blocks |-> blocks, in_pool |-> pool]

PollOutcomes ==
    { LookupFails,
      Resolves(NullArray),
      Resolves(Array(<<>>)),
      Resolves(Array(<<OperationRecord(TRUE, <<"b1">>, FALSE)>>)),
      Resolves(Array(<<OperationRecord(FALSE, <<"b1">>, TRUE)>>)),
      Resolves(Array(<<OperationRecord(FALSE, <<>>, TRUE)>>)),
      Resolves(Array(<<OperationRecord(FALSE, <<>>, FALSE)>>)) }

AwaitIdle ==
    /\ requiredStatus = "none"
    /\ errCounter = 0
    /\ pendingCounter = 0
    /\ awaitPc = "idle"
    /\ awaitResult = "none"
    /\ lookups = 0
    /\ sleeps = 0
    /\ timeoutMs = 0
    /\ successSinceFailure = FALSE

\* awaitRequiredOperationStatus(opId, status) is called: lines 254-255
AwaitRequiredOperationStatus(status) ==
    /\ awaitPc # "running"
    /\ requiredStatus' = status
    /\ errCounter' = 0
    /\ pendingCounter' = 0
    /\ awaitPc' = "running"
    /\ awaitResult' = "none"
    /\ lookups' = 0
    /\ sleeps' = 0
    /\ timeoutMs' = 0
    /\ successSinceFailure' = FALSE
    /\ UNCHANGED <<walletVars, callVars, statusVars>>

\* the loop iteration with the pending cap compared by >= (the timeout is
\* thrown one iteration early)
awaitIterationOffByOne(required, err, pending, outcome) ==
    LET failed == outcome.throws
        err1 == IF failed THEN err + 1 ELSE err
        rethrow == failed /\ err1 > MaxErrCounter
        status == IF failed THEN "NOT_FOUND" ELSE getOperationStatus(outcome.response)
        sleepsInCatch == IF failed /\ ~rethrow THEN 1 ELSE 0
    IN  IF rethrow
        THEN [pc |-> "thrown", result |-> "LookupFailed", errCounter |-> err1,
              pendingCounter |-> pending, sleeps |-> 0, timeoutMs |-> 0]
        ELSE IF status = required
        THEN [pc |-> "returned", result |-> status, errCounter |-> err1,
              pendingCounter |-> pending, sleeps |-> sleepsInCatch, timeoutMs |-> 0]
        ELSE IF pending + 1 >= MaxPendingCounter
        THEN [pc |-> "thrown", result |-> "Timeout", errCounter |-> err1,
              pendingCounter |-> pending + 1, sleeps |-> sleepsInCatch,
              timeoutMs |-> TX_POLL_INTERVAL_MS * TX_STATUS_CHECK_RETRY_COUNT]
        ELSE [pc |-> "running", result |-> "none", errCounter |-> err1,
              pendingCounter |-> pending + 1, sleeps |-> sleepsInCatch + 1, timeoutMs |-> 0]

\* the loop iteration sleeping before it compares the status with the target
awaitIterationSleepFirst(required, err, pending, outcome) ==
    LET failed == outcome.throws
        err1 == IF failed THEN err + 1 ELSE err
        rethrow == failed /\ err1 > MaxErrCounter
        status == IF failed THEN "NOT_FOUND" ELSE getOperationStatus(outcome.response)
        sleepsInCatch == IF failed /\ ~rethrow THEN 1 ELSE 0
    IN  IF rethrow
        THEN [pc |-> "thrown", result |-> "LookupFailed", errCounter |-> err1,
              pendingCounter |-> pending, sleeps |-> 0, timeoutMs |-> 0]
        ELSE IF status = required
        THEN [pc |-> "returned", result |-> status, errCounter |-> err1,
              pendingCounter |-> pending, sleeps |-> sleepsInCatch + 1, timeoutMs |-> 0]
        ELSE IF pending + 1 > MaxPendingCounter
        THEN [pc |-> "thrown", result |-> "Timeout", errCounter |-> err1,
              pendingCounter |-> pending + 1, sleeps |-> sleepsInCatch,
              timeoutMs |-> TX_POLL_INTERVAL_MS * TX_STATUS_CHECK_RETRY_COUNT]
        ELSE [pc |-> "running", result |-> "none", errCounter |-> err1,
              pendingCounter |-> pending + 1, sleeps |-> sleepsInCatch + 1, timeoutMs |-> 0]

\* the loop iteration ending in the catch block after a failed lookup (the
\* pending counter is left alone)
awaitIterationCatchContinues(required, err, pending, outcome) ==
    LET failed == outcome.throws
        err1 == IF failed THEN err + 1 ELSE err
        rethrow == failed /\ err1 > MaxErrCounter
        status == getOperationStatus(outcome.response)
    IN  IF rethrow
        THEN [pc |-> "thrown", result |-> "LookupFailed", errCounter |-> err1,
              pendingCounter |-> pending, sleeps |-> 0, timeoutMs |-> 0]
        ELSE IF failed
        THEN [pc |-> "running", result |-> "none", errCounter |-> err1,
              pendingCounter |-> pending, sleeps |-> 1, timeoutMs |-> 0]
        ELSE IF status = required
        THEN [pc |-> "returned", result |-> status, errCounter |-> err1,
              pendingCounter |-> pending, sleeps |-> 0, timeoutMs |-> 0]
        ELSE IF pending + 1 > MaxPendingCounter
        THEN [pc |-> "thrown", result |-> "Timeout", errCounter |-> err1,
              pendingCounter |-> pending + 1, sleeps |-> 0,
              timeoutMs |-> TX_POLL_INTERVAL_MS * TX_STATUS_CHECK_RETRY_COUNT]
        ELSE [pc |-> "running", result |-> "none", errCounter |-> err1,
              pendingCounter |-> pending + 1, sleeps |-> 1, timeoutMs |-> 0]

\* one iteration of the while loop (lines 256-282), the lookup ending in `outcome`:
\* the counters, the sleeps and whether the call returns, throws or goes on
awaitIteration(required, err, pending, outcome) ==
    LET failed == outcome.throws
        err1 == IF failed THEN err + 1 ELSE err
        rethrow == failed /\ err1 > MaxErrCounter
        status == IF failed THEN "NOT_FOUND" ELSE getOperationStatus(outcome.response)
        sleepsInCatch == IF failed /\ ~rethrow THEN 1 ELSE 0
    IN  IF rethrow
        THEN [pc |-> "thrown", result |-> "LookupFailed", errCounter |-> err1,
              pendingCounter |-> pending, sleeps |-> 0, timeoutMs |-> 0]
        ELSE IF status = required
        THEN [pc |-> "returned", result |-> status, errCounter |-> err1,
              pendingCounter |-> pending, sleeps |-> sleepsInCatch, timeoutMs |-> 0]
        ELSE IF pending + 1 > MaxPendingCounter
        THEN [pc |-> "thrown", result |-> "Timeout", errCounter |-> err1,
              pendingCounter |-> pending + 1, sleeps |-> sleepsInCatch,
              timeoutMs |-> TX_POLL_INTERVAL_MS * TX_STATUS_CHECK_RETRY_COUNT]
        ELSE [pc |-> "running", result |-> "none", errCounter |-> err1,
              pendingCounter |-> pending + 1, sleeps |-> sleepsInCatch + 1, timeoutMs |-> 0]

\* one iteration of the running call, its lookup ending in `outcome`
Iterate(outcome) ==
    /\ awaitPc = "running"
    /\ LET r == awaitIteration(requiredStatus, errCounter, pendingCounter, outcome)
       IN  /\ awaitPc' = r.pc
           /\ awaitResult' = r.result
           /\ errCounter' = r.errCounter
           /\ pendingCounter' = r.pendingCounter
           /\ sleeps' = sleeps + r.sleeps
           /\ timeoutMs' = r.timeoutMs
    /\ lookups' = lookups + 1
    /\ UNCHANGED <<requiredStatus, walletVars, callVars, statusVars>>

AwaitIteration(outcome) ==
    /\ Iterate(outcome)
    /\ UNCHANGED successSinceFailure

\* the iteration, observed: whether a lookup has succeeded after a failed one
AwaitIterationObserved(outcome) ==
    /\ Iterate(outcome)
    /\ successSinceFailure' =
          (successSinceFailure \/ (~outcome.throws /\ errCounter > 0))

(***************************************************************************)
(* Specifications.                                                         *)
(***************************************************************************)
Init == WalletInit /\ call = NoCall /\ Unqueried /\ StatusIdle /\ AwaitIdle

\* the wallet
Next ==
    \/ \E account \in AccountInputs : SetBaseAccount(account)
    \/ CleanWallet
    \/ \E privateKeys \in SeqsUpTo(PrivateKeys, MaxBatch) :
         AddPrivateKeysToWallet(privateKeys)
    \/ \E accounts \in SeqsUpTo(AccountEntries, MaxBatch) :
         AddAccountsToWallet(accounts)
    \/ \E addresses \in SeqsUpTo(AddressInputs, MaxRemove) :
         RemoveAddressesFromWallet(addresses)

Spec == Init /\ [][Next]_vars

\* the wallet, its add calls handed lists at and just over MAX_WALLET_ACCOUNTS
LongLengths == {MAX_WALLET_ACCOUNTS, MAX_WALLET_ACCOUNTS + 1}

\* a list of n copies of one entry
LongList(n, entry) == [i \in 1..n |-> entry]

LongKeys == {"k1"}

LongEntries ==
    { Account("A1b", "P1", "k1", Null),
      Account(Null, Null, "k2", "e1"),
      Account(Null, "P2", "k1", Null),
      Account("A2c", Null, "k1", Null),
      Account(Null, Null, Null, Null) }

NextCap ==
    \/ \E account \in AccountInputs : SetBaseAccount(account)
    \/ CleanWallet
    \/ \E n \in LongLengths, privateKey \in LongKeys :
         AddPrivateKeysToWallet(LongList(n, privateKey))
    \/ \E n \in LongLengths, account \in LongEntries :
         AddAccountsToWallet(LongList(n, account))

SpecCap == Init /\ [][NextCap]_vars

\* one add or setBaseAccount call followed on its own, made after any number of earlier
\* addPrivateKeysToWallet calls on a wallet as its constructor leaves it
InitCall ==
    /\ WalletInit
    /\ Unqueried
    /\ StatusIdle
    /\ AwaitIdle
    /\ \/ \E privateKeys \in SeqsUpTo(PrivateKeys, MaxBatch) :
             call = PendingCall("addPrivateKeysToWallet", privateKeys, <<>>, wallet)
       \/ \E accounts \in SeqsUpTo(CallEntries, MaxBatch) :
             call = PendingCall("addAccountsToWallet", <<>>, accounts, wallet)
       \/ \E account \in AccountInputs :
             call = PendingCall("setBaseAccount", <<>>, <<account>>, wallet)

NextCall ==
    \/ \E privateKeys \in SeqsUpTo(PrivateKeys, MaxBatch) :
         call.status = "pending" /\ AddPrivateKeysToWallet(privateKeys)
    \/ CallAddPrivateKeysToWallet
    \/ CallAddAccountsToWallet
    \/ CallSetBaseAccount

SpecCall == InitCall /\ [][NextCall]_vars

\* the signing calls, on the wallets that addPrivateKeysToWallet and
\* cleanWallet build
NextSign ==
    \/ \E privateKeys \in SeqsUpTo(PrivateKeys, MaxBatch) :
         AddPrivateKeysToWallet(privateKeys)
    \/ CleanWallet
    \/ \E data \in Messages, signer \in Signers : WalletSignMessage(data, signer)
    \/ \E data \in Messages, address \in AddressInputs : SignMessage(data, address)

SpecSign == Init /\ [][NextSign]_vars

\* walletInfo, on the wallets that addPrivateKeysToWallet and cleanWallet build
NextInfo ==
    \/ \E privateKeys \in SeqsUpTo(PrivateKeys, MaxBatch) :
         AddPrivateKeysToWallet(privateKeys)
    \/ CleanWallet
    \/ \E addressesInfo \in InfoResponses : WalletInfo(addressesInfo)

SpecInfo == Init /\ [][NextInfo]_vars

\* walletInfo awaiting the remote call while the other wallet calls run
NextInfoPending ==
    \/ \E privateKeys \in SeqsUpTo(PrivateKeys, MaxBatch) :
         AddPrivateKeysToWallet(privateKeys)
    \/ \E account \in AccountEntries : AddAccountsToWallet(<<account>>)
    \/ \E address \in AddressInputs : RemoveAddressesFromWallet(<<address>>)
    \/ CleanWallet
    \/ WalletInfoBegin
    \/ \E addressesInfo \in InfoResponses \cup {FaithfulResponse(info.requested)} :
         WalletInfoResolve(addressesInfo)

WalletEmpty ==
    /\ wallet = <<>>
    /\ baseAccount = NoAccount
    /\ lastCall = Call("constructor", "none", 0)
    /\ call = NoCall
    /\ Unqueried

\* getOperationStatus on every lookup result
InitStatus == WalletEmpty /\ AwaitIdle /\ \E response \in Responses : StatusPending(response)

NextStatus == GetOperationStatus

SpecStatus == InitStatus /\ [][NextStatus]_vars

\* walletInfo awaiting the remote call, on a client constructed without a
\* base account
InitInfoPending == WalletEmpty /\ StatusIdle /\ AwaitIdle

SpecInfoPending == InitInfoPending /\ [][NextInfoPending]_vars

\* awaitRequiredOperationStatus
InitAwait == WalletEmpty /\ StatusIdle /\ AwaitIdle

NextAwait ==
    \/ \E status \in EOperationStatus : AwaitRequiredOperationStatus(status)
    \/ \E outcome \in PollOutcomes : AwaitIteration(outcome)

SpecAwait == InitAwait /\ [][NextAwait]_vars


\* awaitRequiredOperationStatus, observing how failed and successful lookups
\* follow each other
ObservedTargets == {"FINAL", "NOT_FOUND"}

NextAwaitObserved ==
    \/ \E status \in ObservedTargets : AwaitRequiredOperationStatus(status)
    \/ \E outcome \in PollOutcomes : AwaitIterationObserved(outcome)

SpecAwaitObserved == InitAwait /\ [][NextAwaitObserved]_vars

\* awaitRequiredOperationStatus when every lookup and every sleep of a running
\* call returns: the loop goes on to its next iteration.  The targets are a
\* status that only a successful lookup gives and the one a failed lookup
\* leaves.
NextAwaitFair ==
    \/ \E status \in ObservedTargets : AwaitRequiredOperationStatus(status)
    \/ \E outcome \in PollOutcomes : AwaitIteration(outcome)

FairSpecAwait ==
    /\ InitAwait
    /\ [][NextAwaitFair]_vars
    /\ WF_vars(\E outcome \in PollOutcomes : AwaitIteration(outcome))

(***************************************************************************)
(* Properties of the wallet.                                               *)
(***************************************************************************)
\* the members of w whose address matches `address`, letter case ignored
MembersWithAddress(w, address) ==
    {i \in 1..Len(w) : toLowerCase(w[i].address) = toLowerCase(address)}

\* C1: no two members of the wallet have the same address, letter case
\* ignored, whatever calls were made; stated as the claim states it.
C1_UniqueAddresses ==
    \A i, j \in 1..Len(wallet) :
        i # j => toLowerCase(wallet[i].address) # toLowerCase(wallet[j].address)

\* C2: if the base account is set, the wallet holds a member with the base
\* account's address; stated as the claim states it.
C2_BaseAccountIsMember ==
    baseAccount # NoAccount => MembersWithAddress(wallet, baseAccount.address) # {}

\* C8: right after a successful setBaseAccount, the base account is the
\* wallet's stored member with that address, field for field; stated as the
\* claim states it.
C8_BaseAccountIsStoredMember ==
    (lastCall.op = "setBaseAccount" /\ lastCall.error = "none")
        => \E i \in 1..Len(wallet) : wallet[i] = baseAccount

\* C9: removing the same address list twice in a row leaves the wallet as
\* removing it once does, and a list of absent addresses changes nothing;
\* stated as the claim states it.
C9_RemoveIdempotent ==
    \A addresses \in SeqsUpTo(AddressInputs, MaxRemove) :
        LET once == removeAddressesFromWallet(wallet, addresses)
        IN  /\ removeAddressesFromWallet(once, addresses) = once
            /\ (\A i \in 1..Len(addresses), j \in 1..Len(wallet) :
                    wallet[j].address # addresses[i]) => once = wallet

(***************************************************************************)
(* C7: the cap on the list handed to the add calls.                        *)
(***************************************************************************)
\* C7: an add call handed more than 256 entries throws the too-many-accounts
\* error and leaves the account sequence and the base account as they were;
\* an add call handed exactly 256 entries does not throw that error.
C7_TooManyRejected ==
    [][lastCall'.op \in {"addPrivateKeysToWallet", "addAccountsToWallet"} =>
        /\ lastCall'.size = "overCap" =>
              /\ lastCall'.error = "TooManyAccounts"
              /\ wallet' = wallet
              /\ baseAccount' = baseAccount
        /\ lastCall'.size # "overCap" => lastCall'.error # "TooManyAccounts"]_vars

\* an add call of 257 entries was rejected on a wallet that holds accounts
C7_Witness ==
    /\ lastCall.op \in {"addPrivateKeysToWallet", "addAccountsToWallet"}
    /\ lastCall.size = "overCap"
    /\ lastCall.error = "TooManyAccounts"
    /\ Len(wallet) >= MAX_WALLET_ACCOUNTS

(***************************************************************************)
(* C10: supplied public keys and addresses in addAccountsToWallet.         *)
(***************************************************************************)
\* the public key and the address derived from an entry's resolved private key
DerivedPublicKey(account) ==
    base58Encode(getPublicKey(base58Decode(resolvePrivateKey(account))))

DerivedAddress(account) ==
    deriveAddress(getPublicKey(base58Decode(resolvePrivateKey(account))))

HasKeyMaterial(account) ==
    account.randomEntropy \notin {Null, ""} \/ account.privateKey \notin {Null, ""}

\* the entry supplies a public key or an address other than the derived one
SuppliesMismatch(account) ==
    /\ HasKeyMaterial(account)
    /\ \/ account.publicKey \notin {Null, "", DerivedPublicKey(account)}
       \/ account.address \notin {Null, "", DerivedAddress(account)}

MismatchErrors == {"PublicKeyMismatch", "AddressMismatch"}

AddAccountsDone == call.op = "addAccountsToWallet" /\ call.status = "done"

\* the entries of the call's list that supply a mismatching value
Mismatching == {i \in 1..Len(call.accounts) : SuppliesMismatch(call.accounts[i])}

C5_ClassificationPriority ==
    opStatus # "pending" =>
        IF ~operationData.isArray \/ operationData.records = <<>>
        THEN opStatus = "NOT_FOUND"
        ELSE LET first == operationData.records[1]
             IN  /\ first.is_final => opStatus = "FINAL"
                 /\ (~first.is_final /\ first.in_blocks # <<>>)
                      => opStatus = "INCLUDED_PENDING"
                 /\ (~first.is_final /\ first.in_blocks = <<>> /\ first.in_pool)
                      => opStatus = "AWAITING_INCLUSION"
                 /\ (~first.is_final /\ first.in_blocks = <<>> /\ ~first.in_pool)
                      => opStatus = "INCONSISTENT"

\* a first record in a block and in the pool, followed by a final one, was
\* classified INCLUDED_PENDING
C5_Witness ==
    /\ opStatus = "INCLUDED_PENDING"
    /\ operationData.isArray
    /\ Len(operationData.records) = 2
    /\ operationData.records[1].in_pool
    /\ operationData.records[2].is_final

(***************************************************************************)
(* Properties of awaitRequiredOperationStatus.                             *)
(***************************************************************************)
\* the lookups that resolve to the status `status`
Matching(status) ==
    {outcome \in PollOutcomes :
        ~outcome.throws /\ getOperationStatus(outcome.response) = status}

NonMatching(status) ==
    {outcome \in PollOutcomes :
        ~outcome.throws /\ getOperationStatus(outcome.response) # status}

\* C3: when every lookup so far has failed, the call has not returned a
\* status, it has thrown the lookup failure exactly when 101 lookups were
\* made, and no 102nd lookup is made; stated as the claim states it.
C3_FailuresRaiseAfter101 ==
    (awaitPc # "idle" /\ errCounter = lookups) =>
        /\ awaitPc # "returned"
        /\ lookups <= 101
        /\ lookups = 101 <=> (awaitPc = "thrown" /\ awaitResult = "LookupFailed")

\* C4: when every lookup so far has succeeded with a status other than the
\* target, the timeout is thrown right after the 1001st lookup and not
\* before, and a lookup that matches the target on any of polls 1..1001
\* returns the target.
C4_TimeoutAfter1001 ==
    (awaitPc # "idle" /\ errCounter = 0) =>
        /\ lookups <= 1001
        /\ awaitPc = "thrown" => (awaitResult = "Timeout" /\ lookups = 1001)
        /\ awaitPc = "returned" => awaitResult = requiredStatus
        /\ awaitPc = "running" =>
              /\ lookups <= 1000
              /\ pendingCounter = lookups
              /\ \A outcome \in Matching(requiredStatus) :
                    LET r == awaitIteration(requiredStatus, errCounter,
                                            pendingCounter, outcome)
                    IN  r.pc = "returned" /\ r.result = requiredStatus
              /\ \A outcome \in NonMatching(requiredStatus) :
                    LET r == awaitIteration(requiredStatus, errCounter,
                                            pendingCounter, outcome)
                    IN  IF lookups = 1000
                        THEN r.pc = "thrown" /\ r.result = "Timeout"
                        ELSE r.pc = "running"

\* the timeout was thrown after 1001 lookups that all succeeded
C4_Witness ==
    /\ awaitPc = "thrown"
    /\ awaitResult = "Timeout"
    /\ errCounter = 0
    /\ lookups = 1001

\* C6: a first lookup that succeeds with the target status makes the call
\* return the target after that one lookup, without a sleep and with both
\* counters at zero.
C6_FirstPollReturns ==
    /\ (awaitPc = "running" /\ lookups = 0) =>
          \A outcome \in Matching(requiredStatus) :
              LET r == awaitIteration(requiredStatus, errCounter, pendingCounter, outcome)
              IN  /\ r.pc = "returned"
                  /\ r.result = requiredStatus
                  /\ r.sleeps = 0
                  /\ r.errCounter = 0
                  /\ r.pendingCounter = 0
    /\ (awaitPc = "returned" /\ lookups = 1 /\ errCounter = 0) =>
          /\ awaitResult = requiredStatus
          /\ sleeps = 0
          /\ pendingCounter = 0

\* the call has returned its target after one successful lookup
C6_Witness ==
    /\ awaitPc = "returned"
    /\ lookups = 1
    /\ errCounter = 0
    /\ awaitResult = requiredStatus

\* C17: the lookup failure is thrown only when the 101 failed lookups came in
\* a row, no lookup having succeeded between them; stated as the claim states it.
C17_FailuresInARow ==
    (awaitPc = "thrown" /\ awaitResult = "LookupFailed") => ~successSinceFailure

\* C18: a step that makes the call return is an iteration whose lookup
\* succeeded and classified the operation as the target status; stated as the
\* claim states it.
C18_ReturnsOnlyClassified ==
    [][(awaitPc = "running" /\ awaitPc' = "returned") =>
          \E outcome \in Matching(requiredStatus) : AwaitIteration(outcome)]_vars

\* C19: while the call runs, one sleep has followed each lookup: between two
\* consecutive lookups there is exactly one sleep; stated as the claim states it.
C19_OneSleepPerLookup ==
    awaitPc = "running" => sleeps = lookups

\* C20: the duration the timeout error reports is the poll interval times the
\* pending cap that triggers the timeout; stated as the claim states it.
C20_ReportedDuration ==
    (awaitPc = "thrown" /\ awaitResult = "Timeout") =>
        timeoutMs = TX_POLL_INTERVAL_MS * MaxPendingCounter

(***************************************************************************)
(* C14: the accounts the wallet holds are derived consistently.            *)
(***************************************************************************)
\* the account's publicKey is the public key of its privateKey, and its
\* address is the address derived from its publicKey
ConsistentAccount(account) ==
    /\ account.privateKey \in PrivateKeys
    /\ account.publicKey = base58Encode(getPublicKey(base58Decode(account.privateKey)))
    /\ account.address = deriveAddress(base58Decode(account.publicKey))

\* C14: every member of the wallet and the base account, when set, has the
\* address derived from its publicKey and the publicKey derived from its
\* privateKey; stated as the claim states it.
C14_AccountsDerived ==
    /\ \A i \in 1..Len(wallet) : ConsistentAccount(wallet[i])
    /\ baseAccount # NoAccount => ConsistentAccount(baseAccount)

(***************************************************************************)
(* C15, C16: what the add calls store.                                     *)
(***************************************************************************)
CallDone(op) == call.op = op /\ call.status = "done" /\ call.error = "none"

\* the wallet holds the address, and holds it with the public key
Stores(address, publicKey) ==
    /\ \E i \in 1..Len(wallet) : wallet[i].address = address
    /\ \A i \in 1..Len(wallet) :
          wallet[i].address = address => wallet[i].publicKey = publicKey

\* C15: for every entropy e, getAccountFromEntropy(e) and
\* getAccountFromPrivateKey of the private key it returns give the same
\* address and public key, and a successful add call handed the entropy (in
\* an account without another private key) or that private key (in an account
\* without entropy, or as a key) leaves the wallet storing that address with
\* that public key.
C15_CrossDerivation ==
    \A e \in Entropies :
        LET fromEntropy == getAccountFromEntropy(e)
            fromKey == getAccountFromPrivateKey(fromEntropy.privateKey)
        IN  /\ fromKey.address = fromEntropy.address
            /\ fromKey.publicKey = fromEntropy.publicKey
            /\ CallDone("addAccountsToWallet") =>
                  \A i \in 1..Len(call.accounts) :
                      (\/ /\ call.accounts[i].randomEntropy = e
                          /\ \/ Falsy(call.accounts[i].privateKey)
                             \/ call.accounts[i].privateKey = fromEntropy.privateKey
                       \/ /\ Falsy(call.accounts[i].randomEntropy)
                          /\ call.accounts[i].privateKey = fromEntropy.privateKey)
                          => Stores(fromEntropy.address, fromEntropy.publicKey)
            /\ CallDone("addPrivateKeysToWallet") =>
                  \A i \in 1..Len(call.privateKeys) :
                      call.privateKeys[i] = fromEntropy.privateKey
                          => Stores(fromEntropy.address, fromEntropy.publicKey)

\* addAccountsToWallet has stored an account given by its entropy alone
C15_Witness ==
    /\ CallDone("addAccountsToWallet")
    /\ \E i \in 1..Len(call.accounts), k \in 1..Len(call.ret) :
          /\ call.accounts[i].randomEntropy \in Entropies
          /\ Falsy(call.accounts[i].privateKey)
          /\ call.ret[k].randomEntropy = call.accounts[i].randomEntropy
          /\ call.ret[k].address = getAccountFromEntropy(call.accounts[i].randomEntropy).address

\* C16: a successful addPrivateKeysToWallet leaves the members it found
\* unchanged and in order, appends the accounts of the keys whose address was
\* not a member before the call, in input order, and returns the appended list.
C16_AppendsNewInOrder ==
    CallDone("addPrivateKeysToWallet") =>
        LET NotMember(account) == MembersWithAddress(call.before, account.address) = {}
            added == SelectSeq([i \in 1..Len(call.privateKeys) |->
                                   getAccountFromPrivateKey(call.privateKeys[i])],
                               NotMember)
        IN  /\ wallet = call.before \o added
            /\ call.ret = added

\* addPrivateKeysToWallet, on a wallet holding members, has skipped the first
\* of two keys and appended the second
C16_Witness ==
    /\ CallDone("addPrivateKeysToWallet")
    /\ Len(call.before) >= 1
    /\ Len(call.privateKeys) = 2
    /\ MembersWithAddress(call.before,
                          getAccountFromPrivateKey(call.privateKeys[1]).address) # {}
    /\ Len(call.ret) = 1
    /\ wallet[Len(wallet)].privateKey = call.privateKeys[2]

(***************************************************************************)
(* C11, C12: signing.                                                      *)
(***************************************************************************)
\* the digest walletSignMessage signs for the payload of the last signing call
SignedDigest == hashBlake3(BufferFrom(signed.data))

\* the signer handed to walletSignMessage lacks a key, or has both
LacksKey(signer) == Falsy(signer.privateKey) \/ Falsy(signer.publicKey)

\* C11: walletSignMessage returns a signature only if the signature has
\* length 64 and verifies against the signer's publicKey over the hash of the
\* payload; a signer whose publicKey is not the public key of its privateKey
\* gets the verification error and no signature; a signer lacking privateKey
\* or publicKey gets the missing-key error before signSync is called.
C11_SelfVerified ==
    (signed.op # "none" /\ signed.signer # NoAccount) =>
        /\ signed.error = "none" =>
              /\ signed.signature.hex.bytes.length = 64
              /\ signed.signature.base58Encoded.bytes = signed.signature.hex.bytes
              /\ verifySync(signed.signature.hex.bytes, SignedDigest,
                            base58Decode(signed.signer.publicKey))
        /\ (/\ ~LacksKey(signed.signer)
            /\ signed.signer.publicKey #
                  base58Encode(getPublicKey(base58Decode(signed.signer.privateKey))))
              => signed.error = "NotVerified"
        /\ LacksKey(signed.signer) =>
              /\ signed.error \in {"NoPrivateKey", "NoPublicKey"}
              /\ signed.signSyncCalls = 0

\* walletSignMessage has refused a signer whose publicKey belongs to another
\* private key, after signing
C11_Witness ==
    /\ signed.op = "walletSignMessage"
    /\ signed.error = "NotVerified"
    /\ signed.signSyncCalls = 1
    /\ ~LacksKey(signed.signer)

\* C12: signMessage leaves the wallet as it was; when no member has the
\* address, letter case ignored, it throws the unknown-signer error and signs
\* nothing; when a member has it, the signature is made with that stored
\* member's private key and verifies against its public key.
C12_SignsWithMember ==
    [][(lastCall'.op = "signMessage" /\ signed'.op = "signMessage") =>
          /\ wallet' = wallet
          /\ baseAccount' = baseAccount
          /\ IF MembersWithAddress(wallet, signed'.address) = {}
             THEN signed'.error = "NoSigner" /\ signed'.signSyncCalls = 0
             ELSE /\ signed'.error # "NoSigner"
                  /\ \E i \in MembersWithAddress(wallet, signed'.address) :
                        /\ signed'.signer = wallet[i]
                        /\ signed'.error = "none" =>
                              /\ signed'.signature.hex.bytes.key =
                                    base58Decode(wallet[i].privateKey)
                              /\ verifySync(signed'.signature.hex.bytes,
                                            hashBlake3(BufferFrom(signed'.data)),
                                            base58Decode(wallet[i].publicKey))]_vars

\* signMessage has signed with the member found under another letter case of
\* its address
C12_Witness ==
    /\ lastCall.op = "signMessage"
    /\ signed.op = "signMessage"
    /\ signed.error = "none"
    /\ signed.address # signed.signer.address
    /\ \E i \in 1..Len(wallet) : wallet[i] = signed.signer

(***************************************************************************)
(* C13: walletInfo and the remote response.                                *)
(***************************************************************************)
\* the response holds exactly one entry for each requested address, and no
\* entry for another address
OneEntryPerAddress(requested, response) ==
    /\ \A i \in 1..Len(requested) :
          Cardinality({j \in 1..Len(response) : response[j].address = requested[i]}) = 1
    /\ \A j \in 1..Len(response) :
          \E i \in 1..Len(requested) : response[j].address = requested[i]

\* C13: walletInfo succeeds only if the response holds exactly one entry for
\* each member's address; stated as the claim states it.
C13_CompleteResponse ==
    (lastCall.op = "walletInfo" /\ lastCall.error = "none") =>
        OneEntryPerAddress([i \in 1..Len(wallet) |-> wallet[i].address], info.response)

(***************************************************************************)
(* C21: the two budgets of awaitRequiredOperationStatus.                   *)
(***************************************************************************)
\* C21: a failed lookup consumes only the error budget and a successful
\* non-matching lookup only the pending budget: while the call runs, and when
\* it has thrown the timeout, pendingCounter is the number of lookups that
\* succeeded, and the timeout is thrown only after more than 1000 of them;
\* stated as the claim states it.
C21_IndependentBudgets ==
    (awaitPc = "running" \/ (awaitPc = "thrown" /\ awaitResult = "Timeout")) =>
        /\ pendingCounter + errCounter = lookups
        /\ awaitPc = "thrown" => lookups - errCounter > MaxPendingCounter

(***************************************************************************)
(* C22: a supplied private key and the entropy.                            *)
(***************************************************************************)
\* C22: after a successful addAccountsToWallet, for every entry that supplied
\* a privateKey the wallet stores an account with that privateKey, also when
\* the entry supplied a randomEntropy as well; stated as the claim states it.
C22_SuppliedKeyStored ==
    CallDone("addAccountsToWallet") =>
        \A i \in 1..Len(call.accounts) :
            ~Falsy(call.accounts[i].privateKey) =>
                \E m \in 1..Len(wallet) : wallet[m].privateKey = call.accounts[i].privateKey

(***************************************************************************)
(* C23: removal and lookup.                                                *)
(***************************************************************************)
\* C23: after removeAddressesFromWallet(addresses), in every reachable wallet,
\* getWalletAccountByAddress finds no account for any of the addresses;
\* stated as the claim states it.
C23_RemovedNotFound ==
    \A addresses \in SeqsUpTo(AddressInputs, MaxRemove) :
        LET after == removeAddressesFromWallet(wallet, addresses)
        IN  \A i \in 1..Len(addresses) :
                getWalletAccountByAddress(after, addresses[i]) = NoAccount

(***************************************************************************)
(* C24: addAccountsToWallet and setBaseAccount are all-or-nothing.         *)
(***************************************************************************)
\* the entry fails a check of the loop of addAccountsToWallet
FailsValidation(account) == ~HasKeyMaterial(account) \/ SuppliesMismatch(account)

\* C24: a call of addAccountsToWallet with an entry that fails validation
\* throws, and so does a call of setBaseAccount that hands such an account to
\* addAccountsToWallet; a call of either that throws leaves the account
\* sequence and the base account as they were, also when valid entries precede
\* the failing one.
C24_AllOrNothing ==
    [][(call.status = "pending" /\ call'.status = "done"
            /\ call.op \in {"addAccountsToWallet", "setBaseAccount"}) =>
          /\ (/\ \E i \in 1..Len(call.accounts) : FailsValidation(call.accounts[i])
              /\ \/ call.op = "addAccountsToWallet"
                 \/ wallet = <<>>
                 \/ /\ call.accounts[1].address # Null
                    /\ getWalletAccountByAddress(wallet, call.accounts[1].address) = NoAccount)
                => call'.error # "none"
          /\ call'.error # "none" => (wallet' = wallet /\ baseAccount' = baseAccount)
      ]_vars

\* addAccountsToWallet has thrown at the second entry of its list, after a
\* valid entry of an account the wallet did not hold, and the wallet is as it
\* was before the call
C24_Witness ==
    /\ AddAccountsDone
    /\ call.error # "none"
    /\ Len(call.accounts) = 2
    /\ ~FailsValidation(call.accounts[1])
    /\ getWalletAccountByAddress(call.before, DerivedAddress(call.accounts[1])) = NoAccount
    /\ FailsValidation(call.accounts[2])
    /\ wallet = call.before

(***************************************************************************)
(* C25: awaitRequiredOperationStatus terminates.                           *)
(***************************************************************************)
\* C25: whatever the lookups give, a call of awaitRequiredOperationStatus
\* makes at most 1001 lookups, and a running call returns or throws when its
\* lookups and sleeps return.
C25_Terminates ==
    /\ [](lookups <= MaxPendingCounter + 1)
    /\ (awaitPc = "running") ~> (awaitPc # "running")

\* a call has thrown the timeout at its 1001st lookup, failed lookups among
\* them
C25_Witness ==
    /\ awaitPc = "thrown"
    /\ awaitResult = "Timeout"
    /\ lookups = MaxPendingCounter + 1
    /\ errCounter > 0

(***************************************************************************)
(* C26: walletInfo and a wallet changed while the remote call is pending.  *)
(***************************************************************************)
\* C26: every view walletInfo returns pairs an info record with the key
\* material of the account of the record's address, also when the wallet was
\* changed while the remote call was pending; stated as the claim states it,
\* for a remote call that answers each requested address, in order.
C26_ViewsOfOneAccount ==
    (/\ info.status = "done"
     /\ info.error = "none"
     /\ info.response = FaithfulResponse(info.requested)) =>
        \A k \in 1..Len(info.ret) :
            LET account == getAccountFromPrivateKey(info.ret[k].privateKey)
            IN  /\ account.address = info.ret[k].address
                /\ account.publicKey = info.ret[k].publicKey

(***************************************************************************)
(* C27: the size of the wallet.                                            *)
(***************************************************************************)
\* C27: after any sequence of addPrivateKeysToWallet, addAccountsToWallet and
\* setBaseAccount calls the wallet holds at most MAX_WALLET_ACCOUNTS accounts;
\* stated as the claim states it.
C27_AtMostCap == Len(wallet) <= MAX_WALLET_ACCOUNTS

====
